---- MODULE Spec2Model ----
(***************************************************************************)
(* Model of the scan orchestration of peekaboo:                            *)
(*   core/coordinator.py    ScanCoordinator (start_scan, _run_scan, ...)    *)
(*   crawling/service.py    CrawlingService (crawl_specific_targets, ...)   *)
(*   crawling/katana.py     KatanaCrawler (crawl_all, _execute_command)     *)
(*   discovery/service.py   DiscoveryService (discover, _process_subdomain) *)
(*   discovery/repository.py SubdomainRepository.save                       *)
(*   discovery/network.py   the probes of a name                            *)
(*   discovery/discovery.py SubdomainDiscovery.__init__                     *)
(*   vulnerabilites/xss/xss.py XSSScanner (scan_target, _test_payload)      *)
(*   core/utils.py, main.py clean_target_url, handle_discovery, handle_crawl *)
(*                                                                         *)
(* The Store is the SQLAlchemy session over the tables of core/models.py.  *)
(* A commit is atomic: it either applies or raises and is rolled back.     *)
(* Every action is one run of a coroutine between two suspension points.   *)
(*                                                                         *)
(* The files of this snapshot do not fit each other at several interfaces  *)
(* (discovery/__init__.py imports names service.py and scanner.py do not   *)
(* define, CrawlingService has no __aenter__, KatanaResult and Endpoint    *)
(* are constructed with other fields than core/models.py declares).  The   *)
(* model follows the logic of each function and takes these constructions  *)
(* and imports to succeed.                                                 *)
(***************************************************************************)
EXTENDS Integers, Sequences, FiniteSets, Bags, TLC

----------------------------------------------------------------------------
(* Bounds of the model *)

\* number of Subdomain rows that handle_crawl finds in the Store
MaxTargets == 3
\* largest value of --max-concurrent tried by handle_crawl
MaxConfigured == 2
\* number of rows in the runs checked for progress
FairTargets == 2
\* number of discover calls in a row
MaxDiscoverCalls == 2
\* largest number of lines one katana command prints
MaxLines == 2
\* the last reading of the clock
MaxClock == 2
\* number of Endpoint rows the vulnerability scan finds in the Store
MaxEndpoints == 2
\* number of iterations of the crawl service that are followed
MaxIterations == 7
\* number of tokens of a target the user passes
MaxTyped == 3

----------------------------------------------------------------------------
(* Program constants *)

\* CrawlingService.__init__: self.max_concurrent_crawls = 5
DefaultMaxConcurrentCrawls == 5
\* start_crawling_service: `if consecutive_errors >= 5`
ConsecutiveErrorLimit == 5
\* XSSScanner.__init__: self.payloads, by position
Payloads == 1..4
\* XSSScanner.__init__: self.max_payloads_per_param = 10
max_payloads_per_param == 10

----------------------------------------------------------------------------
(* Domain names are sequences of labels: <<"a", "t">> is a.t *)

Base == <<"t">>
SubA == <<"a", "t">>
Other == <<"x", "o">>
NoCandidate == << >>
NoReport == [status |-> "none"]
\* None, for an attribute that holds a time
NoTime == -1
NoScenario == [overall |-> "none"]
\* None, for http_status
NoStatus == 0
\* no request is being made
NoRequest == [e |-> 0, p |-> 0, k |-> 0]
\* Endpoint.parameters is NULL
NoParameters == <<"None">>

\* output lines of katana, reduced to the fields the services read.
\* js is TRUE when url.endswith('.js').
RecA == [url |-> "/a", method |-> "GET", js |-> FALSE]
RecJ == [url |-> "/app.js", method |-> "GET", js |-> TRUE]
RecAPost == [url |-> "/a", method |-> "POST", js |-> FALSE]

VARIABLES
    \* ---- Store (core/models.py) ----
    subdomains,     \* sequence of Subdomain rows; the row id is the index
    endpoints,      \* bag of <<subdomain_id, url, method>>: Endpoint rows
    js_files,       \* bag of <<subdomain_id, url>>: JavaScript rows
    vulnerabilities,\* number of Vulnerability rows
    \* ---- CrawlingService ----
    max_concurrent_crawls,  \* the attribute of the service
    crawl_semaphore,        \* free permits of self.crawl_semaphore
    spc,            \* position of crawl_specific_targets
    tasks,          \* set of subdomain ids scheduled by the call
    wpc,            \* per task: position of _crawl_subdomain
    wres,           \* per task: list returned by katana.crawl_all
    wret,           \* per task: what gather collected for the task
    wout,           \* per task: which log line ended the worker
    weng,           \* per task: what happened inside katana.crawl_all
    wscn,           \* per task: what the three commands of the engine did
    success_count,  \* crawl_specific_targets: "CRAWL COMPLETE: n/len(tasks)"
    failed_logged,  \* crawl_specific_targets: "Failed to crawl" lines
    engine_calls,   \* bag of subdomain ids: calls of katana.crawl_all so far
    \* ---- DiscoveryService ----
    dpc,            \* position of discover
    discovered,     \* self.discovered
    results,        \* self.results
    dq,             \* domains_to_process not yet iterated
    cur,            \* the name and source _process_subdomain is validating
    discover_calls, \* number of discover calls so far
    last_save,      \* what the last repository.save of a validation did
    save_log,       \* per result: what repository.save did for it
    \* ---- ScanCoordinator ----
    cpc,            \* position of start_scan / _run_scan
    new_active,     \* ids in new_active_subdomains
    total_subdomains,
    crawled_subdomains,
    report,         \* the report start_scan returns
    n_reports,      \* calls of _generate_scan_report so far
    handed,         \* rows given to crawl_specific_targets, as selected
    phase_log,      \* the phases in the order they started
    now,            \* datetime.utcnow()
    start_time,     \* self.start_time
    completion_time,\* self.completion_time
    \* ---- environment ----
    cancel,         \* the task cancellation of the user
    \* ---- the host ----
    katana_exists,  \* Path("/usr/local/bin/katana").exists(): TRUE on a host
                    \* where the binary is installed where KatanaCrawler looks
    \* ---- _process_subdomain, the validation of one name ----
    vpc,            \* position of _process_subdomain
    probes,         \* what DNS, the web server and the CNAME lookup did
    validation,     \* the result dict of the name
    \* ---- XSSScanner and _scan_vulnerabilities ----
    xpc,            \* position of _scan_vulnerabilities
    xss_endpoints,  \* the parameters of the Endpoint rows; the id is the index
    xss_selected,   \* the rows the query of scan_target returned, in order
    xss_at,         \* the endpoint, parameter and payload of the next request
    findings,       \* the list scan_target builds
    xss_scanned,    \* rows scan_endpoint has returned for
    xss_raised,     \* requests that raised
    xss_reflected,  \* requests whose response held the payload
    xss_saved,      \* Vulnerability rows committed
    \* ---- start_crawling_service ----
    svpc,           \* position of start_crawling_service
    consecutive_errors,
    svc_delay,      \* the last backoff delay slept, in seconds
    svc_log,        \* what each iteration so far ended with
    \* ---- the target of a scan ----
    target_arg,     \* the target as the user passed it
    self_target     \* the self.target set so far: coordinator's, discoverer's

storeVars == <<subdomains, endpoints, js_files, vulnerabilities>>
crawlVars == <<max_concurrent_crawls, crawl_semaphore, spc, tasks, wpc, wres,
               wret, wout, weng, wscn, success_count, failed_logged, engine_calls>>
discVars == <<dpc, discovered, results, dq, cur, discover_calls, last_save,
             save_log>>
coordVars == <<cpc, new_active, total_subdomains, crawled_subdomains, report,
               n_reports, handed, phase_log, now, start_time,
               completion_time>>
coordVarsButPc == <<new_active, total_subdomains, crawled_subdomains, report,
                    n_reports, handed, phase_log, now, start_time,
               completion_time>>
probeVars == <<vpc, probes, validation>>
\* what the actions of the scan leave alone
xssVars == <<xpc, xss_endpoints, xss_selected, xss_at, findings, xss_scanned,
            xss_raised, xss_reflected, xss_saved>>
svcVars == <<svpc, consecutive_errors, svc_delay, svc_log>>
cleanVars == <<target_arg, self_target>>
restVars == <<katana_exists, probeVars, xssVars, svcVars, cleanVars>>
\* what the scan works on
scanVars == <<storeVars, crawlVars, discVars, coordVars, cancel, katana_exists>>
vars == <<storeVars, crawlVars, discVars, coordVars, cancel, restVars>>

----------------------------------------------------------------------------
(* core/utils.py, main.py: clean_target_url *)

(* A name as it is typed or reported is a sequence of tokens: a scheme, the
   labels of the host (a dot stands between two adjacent labels) and "/".
   The names above are the spellings without scheme, slash or capitals. *)
Schemes == {"https://", "http://"}

\* str.lower on one token
Lower(tok) ==
    CASE tok = "HTTPS://" -> "https://"
      [] tok = "HTTP://" -> "http://"
      [] tok = "WWW" -> "www"
      [] tok = "A" -> "a"
      [] tok = "T" -> "t"
      [] OTHER -> tok

LowerAll(s) == [i \in 1..Len(s) |-> Lower(s[i])]

\* target.startswith(prefix), prefix one of 'https://', 'http://', 'www.'
StartsWith(s, prefix) ==
    /\ s # << >>
    /\ IF prefix = "www."
       THEN /\ Head(s) = "www"
            /\ Len(s) >= 2
            /\ s[2] \notin Schemes \cup {"/", "https:", "http:"}
       ELSE Head(s) = prefix

\* if target.startswith(prefix): target = target[len(prefix):]
DropPrefix(s, prefix) == IF StartsWith(s, prefix) THEN Tail(s) ELSE s

\* str.strip('/'); it takes the slashes of a scheme at the end as well
RECURSIVE LStrip(_)
LStrip(s) ==
    IF s # << >> /\ Head(s) = "/" THEN LStrip(Tail(s)) ELSE s
RECURSIVE RStrip(_)
RStrip(s) ==
    IF s = << >> THEN s
    ELSE LET last == s[Len(s)]
             front == SubSeq(s, 1, Len(s) - 1)
         IN  CASE last = "/" -> RStrip(front)
               [] last = "https://" -> Append(front, "https:")
               [] last = "http://" -> Append(front, "http:")
               [] OTHER -> s

clean_target_url(target) ==
    LET l == LowerAll(target)
        p1 == DropPrefix(l, "https://")
        p2 == DropPrefix(p1, "http://")
        p3 == DropPrefix(p2, "www.")
    IN  RStrip(LStrip(p3))

\* what the user may type for the seed
SeedSpellings ==
    { Base, SubA, <<"HTTPS://", "T", "/">>, <<"http://", "www", "A", "t">>,
      <<"T", "/", "/">> }

----------------------------------------------------------------------------
(* Store helpers *)

SubdomainRow(d, alive, src) ==
    [domain |-> d, is_alive |-> alive, last_checked |-> FALSE, source |-> src]

Ids == 1..Len(subdomains)

RECURSIVE SeqToBag(_)
SeqToBag(s) ==
    IF s = <<>> THEN EmptyBag
    ELSE SetToBag({Head(s)}) (+) SeqToBag(Tail(s))

RECURSIVE SelectRecs(_, _)
SelectRecs(s, wantJs) ==
    IF s = <<>> THEN <<>>
    ELSE IF Head(s).js = wantJs
         THEN <<Head(s)>> \o SelectRecs(Tail(s), wantJs)
         ELSE SelectRecs(Tail(s), wantJs)

RECURSIVE MapEndpoint(_, _)
MapEndpoint(sid, s) ==
    IF s = <<>> THEN <<>>
    ELSE <<  <<sid, Head(s).url, Head(s).method>>  >> \o MapEndpoint(sid, Tail(s))

RECURSIVE MapJs(_, _)
MapJs(sid, s) ==
    IF s = <<>> THEN <<>>
    ELSE <<  <<sid, Head(s).url>>  >> \o MapJs(sid, Tail(s))

\* rows of the two resource tables that belong to subdomain sid
EndpointRowsOf(sid) ==
    LET ks == {k \in BagToSet(endpoints) : k[1] = sid}
    IN  BagCardinality([k \in ks |-> endpoints[k]])
JsRowsOf(sid) ==
    LET ks == {k \in BagToSet(js_files) : k[1] = sid}
    IN  BagCardinality([k \in ks |-> js_files[k]])
ResourceRowsOf(sid) == EndpointRowsOf(sid) + JsRowsOf(sid)

----------------------------------------------------------------------------
(* KatanaCrawler *)

\* a deduplication whose key is the url alone
RECURSIVE DedupFrom_ByUrl(_, _)
DedupFrom_ByUrl(recs, seen) ==
    IF recs = <<>> THEN <<>>
    ELSE LET key == Head(recs).url
         IN  IF key \in seen
             THEN DedupFrom_ByUrl(Tail(recs), seen)
             ELSE <<Head(recs)>> \o DedupFrom_ByUrl(Tail(recs), seen \cup {key})

\* _deduplicate_results: first record of every (url, method), in order
RECURSIVE DedupFrom(_, _)
DedupFrom(recs, seen) ==
    IF recs = <<>> THEN <<>>
    ELSE LET key == <<Head(recs).url, Head(recs).method>>
         IN  IF key \in seen
             THEN DedupFrom(Tail(recs), seen)
             ELSE <<Head(recs)>> \o DedupFrom(Tail(recs), seen \cup {key})

_deduplicate_results(recs) == DedupFrom(recs, {})

\* _execute_command: the parsed lines of a run of the tool; [] when the
\* command timed out (process killed) or exited with a non-zero code
_execute_command(run) ==
    IF run.end = "exit0" THEN run.lines ELSE <<>>

\* _parse_result(result, source): the KatanaResult of one output line
_parse_result(line, source) ==
    [url |-> line.url, method |-> line.method, js |-> line.js,
     source |-> source]

\* [self._parse_result(r, source) for r in results]
ParseAll(lines, source) ==
    [k \in 1..Len(lines) |-> _parse_result(lines[k], source)]

\* What the three katana commands of one crawl_all may do.  "raised" is an
\* exception out of crawl_endpoints / crawl_js / crawl_forms.
RunOk(lines) == [end |-> "exit0", lines |-> lines]
RunExitError == [end |-> "exit1", lines |-> <<>>]

EngineScenarios ==
    { [endpoints |-> RunOk(<<RecA>>), javascript |-> RunOk(<<RecJ>>),
       forms |-> RunOk(<<RecA>>), overall |-> "in_time"],
      [endpoints |-> RunExitError, javascript |-> RunExitError,
       forms |-> RunExitError, overall |-> "in_time"],
      [endpoints |-> [end |-> "timeout", lines |-> <<>>],
       javascript |-> [end |-> "raised", lines |-> <<>>],
       forms |-> RunOk(<<>>), overall |-> "timed_out"] }

\* crawl_all: gather the three crawls (return_exceptions=True), skip the
\* failed and the empty ones, deduplicate; [] on its own timeout
crawl_all(scn) ==
    IF scn.overall = "timed_out" THEN <<>>
    ELSE LET part(run, source) ==
                 IF run.end = "raised" THEN <<>>
                 ELSE ParseAll(_execute_command(run), source)
         IN  _deduplicate_results(part(scn.endpoints, "crawler")
                                  \o part(scn.javascript, "javascript_parser")
                                  \o part(scn.forms, "form_submission"))

\* the ghost label of a scenario: how the engine ended
EngineEnd(scn) ==
    IF scn.overall = "timed_out" THEN "engine_timeout"
    ELSE IF scn.endpoints.end = "exit1" THEN "tool_error"
    ELSE "records"

----------------------------------------------------------------------------
(* CrawlingService *)

\* __init__: the semaphore is built from the value the attribute has at
\* construction
CrawlingService_init ==
    LET m == DefaultMaxConcurrentCrawls
    IN  [max_concurrent_crawls |-> m, crawl_semaphore |-> m]

\* engine invocations in flight: workers inside katana.crawl_all
InFlight == {i \in DOMAIN wpc : wpc[i] \in {"crawl", "hung"}}

\* crawl_specific_targets up to the gather: fetch the rows with the given
\* ids and schedule one _crawl_subdomain per row
ScheduleCrawl(ids) ==
    LET found == {i \in Ids : i \in ids}
    IN  /\ tasks' = found
        /\ spc' = IF found = {} THEN "returned" ELSE "gather"
        /\ wpc' = [i \in found |-> "wait"]
        /\ wres' = [i \in found |-> <<>>]
        /\ wret' = [i \in found |-> "pending"]
        /\ wout' = [i \in found |-> "none"]
        /\ weng' = [i \in found |-> "none"]
        /\ wscn' = [i \in found |-> NoScenario]
        /\ success_count' = 0
        /\ failed_logged' = 0

\* the worker leaves `async with self.crawl_semaphore` and returns None
EndWorker(i, out) ==
    /\ wpc' = [wpc EXCEPT ![i] = "done"]
    /\ wout' = [wout EXCEPT ![i] = out]
    /\ wret' = [wret EXCEPT ![i] = "None"]
    /\ crawl_semaphore' = crawl_semaphore + 1

\* _crawl_subdomain, `async with self.crawl_semaphore` and the call of
\* katana.crawl_all under wait_for(120).  The engine may never answer.
AcquireSlot(i) ==
    /\ spc = "gather"
    /\ wpc[i] = "wait"
    /\ crawl_semaphore > 0
    /\ crawl_semaphore' = crawl_semaphore - 1
    /\ engine_calls' = engine_calls (+) SetToBag({i})
    /\ \E answers \in BOOLEAN :
          wpc' = [wpc EXCEPT ![i] = IF answers THEN "crawl" ELSE "hung"]
    /\ UNCHANGED <<storeVars, max_concurrent_crawls, spc, tasks, wres, wret,
                   wout, weng, wscn, success_count, failed_logged,
                   discVars, coordVars, cancel, restVars>>

\* katana.crawl_all returns a list (possibly empty) within the 120 s
KatanaReturnsFrom(i, scenarios) ==
    /\ spc = "gather"
    /\ wpc[i] = "crawl"
    /\ \E scn \in scenarios :
          /\ wres' = [wres EXCEPT ![i] = crawl_all(scn)]
          /\ weng' = [weng EXCEPT ![i] = EngineEnd(scn)]
          /\ wscn' = [wscn EXCEPT ![i] = scn]
    /\ wpc' = [wpc EXCEPT ![i] = "process"]
    /\ UNCHANGED <<storeVars, max_concurrent_crawls, crawl_semaphore, spc,
                   tasks, wret, wout, success_count, failed_logged, engine_calls,
                   discVars, coordVars, cancel, restVars>>

KatanaReturns(i) == KatanaReturnsFrom(i, EngineScenarios)

\* a worker without its `except Exception`, gathered without
\* return_exceptions: the exception ends crawl_specific_targets
KatanaRaises_Propagates(i) ==
    /\ spc = "gather"
    /\ wpc[i] = "crawl"
    /\ weng' = [weng EXCEPT ![i] = "raised"]
    /\ UNCHANGED wscn
    /\ wpc' = [wpc EXCEPT ![i] = "done"]
    /\ wout' = [wout EXCEPT ![i] = "crawl_error"]
    /\ wret' = [wret EXCEPT ![i] = "Exception"]
    /\ crawl_semaphore' = crawl_semaphore + 1
    /\ spc' = "raised"
    /\ UNCHANGED <<storeVars, max_concurrent_crawls, tasks, wres,
                   success_count, failed_logged, engine_calls,
                   discVars, coordVars, cancel, restVars>>

\* katana.crawl_all raises (its statistics divide by the elapsed time,
\* outside its try block): `except Exception` of the worker logs it
KatanaRaises(i) ==
    /\ spc = "gather"
    /\ wpc[i] = "crawl"
    /\ weng' = [weng EXCEPT ![i] = "raised"]
    /\ UNCHANGED wscn
    /\ EndWorker(i, "crawl_error")
    /\ UNCHANGED <<storeVars, max_concurrent_crawls, spc, tasks, wres,
                   success_count, failed_logged, engine_calls,
                   discVars, coordVars, cancel, restVars>>

\* a worker whose engine call has no timeout of its own: only a call
\* that is still answering can be ended
CrawlTimeout_OnlyResponsive(i) ==
    /\ spc = "gather"
    /\ wpc[i] = "crawl"
    /\ weng' = [weng EXCEPT ![i] = "per_target_timeout"]
    /\ UNCHANGED wscn
    /\ EndWorker(i, "timeout")
    /\ UNCHANGED <<storeVars, max_concurrent_crawls, spc, tasks, wres,
                   success_count, failed_logged, engine_calls,
                   discVars, coordVars, cancel, restVars>>

\* wait_for(..., timeout=120) expires: "Crawl timed out", return
CrawlTimeout(i) ==
    /\ spc = "gather"
    /\ wpc[i] \in {"crawl", "hung"}
    /\ weng' = [weng EXCEPT ![i] = IF wpc[i] = "hung" THEN "never_returned"
                                    ELSE "per_target_timeout"]
    /\ UNCHANGED wscn
    /\ EndWorker(i, "timeout")
    /\ UNCHANGED <<storeVars, max_concurrent_crawls, spc, tasks, wres,
                   success_count, failed_logged, engine_calls,
                   discVars, coordVars, cancel, restVars>>

\* _process_results, the Store accepts the records: one commit holds the
\* Endpoint rows and the JavaScript rows of the crawl
ProcessResultsOk(i) ==
    /\ spc = "gather"
    /\ wpc[i] = "process"
    /\ endpoints' = endpoints (+) SeqToBag(MapEndpoint(i, SelectRecs(wres[i], FALSE)))
    /\ js_files' = js_files (+) SeqToBag(MapJs(i, SelectRecs(wres[i], TRUE)))
    /\ wpc' = [wpc EXCEPT ![i] = "mark"]
    /\ UNCHANGED <<subdomains, vulnerabilities, max_concurrent_crawls, crawl_semaphore, spc,
                   tasks, wres, wret, wout, weng, wscn, success_count, failed_logged, engine_calls,
                   discVars, coordVars, cancel, restVars>>

\* a _process_results that logs the Store error and returns: the worker
\* goes on and commits last_checked
ProcessResultsFails_Swallowed(i) ==
    /\ spc = "gather"
    /\ wpc[i] = "process"
    /\ subdomains' = [subdomains EXCEPT ![i].last_checked = TRUE]
    /\ EndWorker(i, "process_error")
    /\ UNCHANGED <<endpoints, js_files, vulnerabilities, max_concurrent_crawls,
                   spc, tasks, wres, weng, wscn, success_count, failed_logged,
                   engine_calls, discVars, coordVars, cancel, restVars>>

\* _process_results, the Store raises: rollback, re-raise, and the
\* `except Exception` of the worker logs "Error crawling"
ProcessResultsFails(i) ==
    /\ spc = "gather"
    /\ wpc[i] = "process"
    /\ EndWorker(i, "process_error")
    /\ UNCHANGED <<storeVars, max_concurrent_crawls, spc, tasks, wres, weng, wscn,
                   success_count, failed_logged, engine_calls,
                   discVars, coordVars, cancel, restVars>>

\* subdomain.last_checked = utcnow(); session.commit()
UpdateLastCheckedOk(i) ==
    /\ spc = "gather"
    /\ wpc[i] = "mark"
    /\ subdomains' = [subdomains EXCEPT ![i].last_checked = TRUE]
    /\ EndWorker(i, "ok")
    /\ UNCHANGED <<endpoints, js_files, vulnerabilities, max_concurrent_crawls, spc, tasks,
                   wres, weng, wscn, success_count, failed_logged, engine_calls,
                   discVars, coordVars, cancel, restVars>>

\* the commit of last_checked raises: rolled back, logged, swallowed
UpdateLastCheckedFails(i) ==
    /\ spc = "gather"
    /\ wpc[i] = "mark"
    /\ EndWorker(i, "mark_error")
    /\ UNCHANGED <<storeVars, max_concurrent_crawls, spc, tasks, wres, weng, wscn,
                   success_count, failed_logged, engine_calls,
                   discVars, coordVars, cancel, restVars>>

\* results = await gather(*tasks, return_exceptions=True); the counts of
\* the summary and of the "Failed to crawl" loop
GatherCounts ==
    [success |-> Cardinality({i \in tasks : wret[i] # "Exception"}),
     failed  |-> Cardinality({i \in tasks : wret[i] = "Exception"})]

GatherDone ==
    /\ spc = "gather"
    /\ \A i \in tasks : wpc[i] = "done"
    /\ success_count' = GatherCounts.success
    /\ failed_logged' = GatherCounts.failed
    /\ spc' = "returned"
    /\ UNCHANGED <<storeVars, max_concurrent_crawls, crawl_semaphore, tasks,
                   wpc, wres, wret, wout, weng, wscn, engine_calls,
                   discVars, coordVars, cancel, restVars>>

Worker(i) ==
    \/ AcquireSlot(i)
    \/ KatanaReturns(i)
    \/ KatanaRaises(i)
    \/ CrawlTimeout(i)
    \/ ProcessResultsOk(i)
    \/ ProcessResultsFails(i)
    \/ UpdateLastCheckedOk(i)
    \/ UpdateLastCheckedFails(i)

----------------------------------------------------------------------------
(* main.py handle_crawl: the crawl command *)

\* the service is built, then the attribute is overwritten with
\* args.max_concurrent, then the rows with the given ids are crawled
handle_crawl(n, ids) ==
    /\ spc = "idle"
    /\ LET svc == CrawlingService_init
       IN  /\ crawl_semaphore' = svc.crawl_semaphore
           /\ max_concurrent_crawls' = n
    /\ ScheduleCrawl(ids)
    /\ UNCHANGED <<storeVars, engine_calls, discVars, coordVars, cancel, restVars>>

HandleCrawl ==
    \E n \in 1..MaxConfigured \cup {DefaultMaxConcurrentCrawls} :
        handle_crawl(n, Ids)

\* the parts of the state that are idle before an entry point is called
CrawlIdle ==
    /\ max_concurrent_crawls = DefaultMaxConcurrentCrawls
    /\ crawl_semaphore = DefaultMaxConcurrentCrawls
    /\ spc = "idle"
    /\ tasks = {}
    /\ wpc = << >>
    /\ wres = << >>
    /\ wret = << >>
    /\ wout = << >>
    /\ weng = << >>
    /\ wscn = << >>
    /\ success_count = 0
    /\ failed_logged = 0
    /\ engine_calls = EmptyBag

DiscoveryIdle ==
    /\ dpc = "idle"
    /\ discovered = {}
    /\ results = << >>
    /\ dq = << >>
    /\ cur = NoCandidate
    /\ discover_calls = 0
    /\ last_save = "none"
    /\ save_log = << >>

CoordinatorIdle ==
    /\ cpc = "not_started"
    /\ new_active = {}
    /\ total_subdomains = 0
    /\ crawled_subdomains = 0
    /\ report = NoReport
    /\ n_reports = 0
    /\ handed = {}
    /\ phase_log = << >>
    /\ now = 0
    /\ start_time = NoTime
    /\ completion_time = NoTime

\* no name is being validated
ProbeIdle ==
    /\ vpc = "idle"
    /\ probes = [dns |-> "none"]
    /\ validation = [domain |-> NoCandidate]

XssIdle ==
    /\ xpc = "idle"
    /\ xss_endpoints = << >>
    /\ xss_selected = << >>
    /\ xss_at = NoRequest
    /\ findings = << >>
    /\ xss_scanned = {}
    /\ xss_raised = {}
    /\ xss_reflected = {}
    /\ xss_saved = << >>

ServiceIdle ==
    /\ svpc = "idle"
    /\ consecutive_errors = 0
    /\ svc_delay = 0
    /\ svc_log = << >>

\* the components that take no part in the run
RestIdle ==
    /\ ProbeIdle
    /\ XssIdle
    /\ ServiceIdle
    /\ target_arg = << >>
    /\ self_target = << >>

\* the Store the crawl command finds: n live rows left by a discovery
InitCrawlOf(n) ==
    /\ subdomains = [i \in 1..n |->
                        SubdomainRow(<<"h", i, "t">>, TRUE, "PASSIVE")]
    /\ endpoints = EmptyBag
    /\ js_files = EmptyBag
    /\ vulnerabilities = 0
    /\ CrawlIdle
    /\ DiscoveryIdle
    /\ CoordinatorIdle
    /\ cancel = "none"
    /\ katana_exists = TRUE
    /\ RestIdle

InitCrawl == InitCrawlOf(MaxTargets)

NextCrawl ==
    \/ HandleCrawl
    \/ \E i \in tasks : Worker(i)
    \/ GatherDone

SpecCrawl == InitCrawl /\ [][NextCrawl]_vars

\* the event loop runs every ready coroutine and fires every timer
FairSpecCrawl ==
    /\ InitCrawlOf(FairTargets)
    /\ [][NextCrawl]_vars
    /\ \A i \in 1..FairTargets : WF_vars(Worker(i))
    /\ WF_vars(GatherDone)
    /\ WF_vars(HandleCrawl)

----------------------------------------------------------------------------
(* Properties of the crawl pool *)

FailedOuts == {"timeout", "crawl_error", "process_error"}

\* C3: at every instant the number of katana.crawl_all calls in flight is
\* at most the configured max_concurrent_crawls, also when the caller set
\* the attribute after the construction of the service.
C3_InFlightWithinConfigured ==
    Cardinality(InFlight) <= max_concurrent_crawls

\* C4: when the worker of one target raises, the exception does not leave
\* the pool: crawl_specific_targets returns normally, no task result is an
\* exception, every worker has run to its end, and every other target that
\* was crawled has its records persisted and its last_checked set.
C4_FailureIsolated ==
    /\ spc # "raised"
    /\ \A i \in tasks : wret[i] # "Exception"
    /\ spc = "returned" =>
          \A j \in tasks :
             /\ wpc[j] = "done"
             /\ wout[j] = "ok" =>
                   /\ subdomains[j].last_checked
                   /\ EndpointRowsOf(j) = Len(SelectRecs(wres[j], FALSE))
                   /\ JsRowsOf(j) = Len(SelectRecs(wres[j], TRUE))

C4_Witness ==
    /\ spc = "returned"
    /\ \E k \in tasks :
          /\ wout[k] = "crawl_error"
          /\ \A j \in tasks \ {k} :
                wout[j] = "ok" /\ ResourceRowsOf(j) = 2

\* C5: the pool distinguishes succeeded from timed out and failed: when
\* crawl_specific_targets returns, the number it reports as processed is
\* the number of targets whose worker neither raised nor timed out, and
\* every other target is reported as a failure.
C5_OutcomesCounted ==
    spc = "returned" =>
       /\ success_count = Cardinality({i \in tasks : wout[i] \notin FailedOuts})
       /\ failed_logged = Cardinality({i \in tasks : wout[i] \in FailedOuts})

\* C6: a worker whose engine call never returns is abandoned by the 120 s
\* timeout, its slot is released, and the batch still completes with every
\* other worker run to its end.
C6_HungWorkerAbandoned ==
    \A k \in 1..FairTargets :
       (spc = "gather" /\ wpc[k] = "hung")
          ~> (/\ spc = "returned"
              /\ wout[k] = "timeout"
              /\ crawl_semaphore = DefaultMaxConcurrentCrawls
              /\ \A j \in tasks : wpc[j] = "done")

C6_Witness ==
    /\ spc = "returned"
    /\ \E k \in tasks :
          /\ weng[k] = "never_returned"
          /\ \E j \in tasks \ {k} : wout[j] = "ok"

\* C7: if the Store raises while the records of a target are saved, the
\* last_checked of that target is still null when its worker has ended.
C7_WatermarkNotAdvancedOnSaveFailure ==
    \A i \in tasks :
       (wpc[i] = "done" /\ wout[i] = "process_error")
          => ~subdomains[i].last_checked

C7_Witness ==
    \E i \in tasks :
       /\ wpc[i] = "done"
       /\ wout[i] = "process_error"
       /\ weng[i] = "records"

\* C8: whenever the crawl of a target timed out or failed (per-target
\* timeout, the engine's own timeout, the tool exiting with an error) the
\* last_checked of the target stays null.
C8_FailedCrawlLeavesWatermark ==
    \A i \in tasks :
       weng[i] \in {"per_target_timeout", "never_returned",
                    "engine_timeout", "tool_error"}
          => ~subdomains[i].last_checked

----------------------------------------------------------------------------
(* One engine invocation on every output of the three commands *)

SeqsUpTo(S, n) == UNION {[1..k -> S] : k \in 0..n}

EngineLines == {RecA, RecAPost, RecJ}

\* every command exits with 0 and prints up to MaxLines lines
EngineInputs ==
    { [endpoints |-> RunOk(a), javascript |-> RunOk(b), forms |-> RunOk(c),
       overall |-> "in_time"] :
          a \in SeqsUpTo(EngineLines, MaxLines),
          b \in SeqsUpTo(EngineLines, MaxLines),
          c \in SeqsUpTo(EngineLines, MaxLines) }

\* the crawl command with the default concurrency
CrawlCommand == handle_crawl(DefaultMaxConcurrentCrawls, Ids)

EngineWorker(i) ==
    \/ AcquireSlot(i)
    \/ KatanaReturnsFrom(i, EngineInputs)
    \/ CrawlTimeout(i)
    \/ ProcessResultsOk(i)
    \/ ProcessResultsFails(i)
    \/ UpdateLastCheckedOk(i)
    \/ UpdateLastCheckedFails(i)

InitEngine == InitCrawlOf(1)

NextEngine ==
    \/ CrawlCommand
    \/ \E i \in tasks : EngineWorker(i)
    \/ GatherDone

SpecEngine == InitEngine /\ [][NextEngine]_vars

\* the records the three crawls reported, in the order crawl_all reads them
Found(scn) ==
    ParseAll(scn.endpoints.lines, "crawler")
       \o ParseAll(scn.javascript.lines, "javascript_parser")
       \o ParseAll(scn.forms.lines, "form_submission")

KeyOf(r) == <<r.url, r.method>>
KeysOf(f) == {KeyOf(f[k]) : k \in 1..Len(f)}

FirstPos(f, key) ==
    CHOOSE k \in 1..Len(f) :
       KeyOf(f[k]) = key /\ \A m \in 1..(k - 1) : KeyOf(f[m]) # key

\* u holds, for every (url, method) of f, the first record of f with it,
\* in the order of these first records
IsFirstOccurrences(u, f) ==
    /\ KeysOf(u) = KeysOf(f)
    /\ \A a \in 1..Len(u) : u[a] = f[FirstPos(f, KeyOf(u[a]))]
    /\ \A a, b \in 1..Len(u) :
          a < b => FirstPos(f, KeyOf(u[a])) < FirstPos(f, KeyOf(u[b]))

AllExitedOk(scn) ==
    /\ scn.overall = "in_time"
    /\ scn.endpoints.end = "exit0"
    /\ scn.javascript.end = "exit0"
    /\ scn.forms.end = "exit0"

Persisted(i) ==
    \/ wpc[i] = "mark"
    \/ wpc[i] = "done" /\ wout[i] \in {"ok", "mark_error"}

----------------------------------------------------------------------------
(* SubdomainRepository and DiscoveryService *)

\* the names the passive scanner may return for the seed
ScanOutputs == { << >>, <<SubA, Base, SubA>> }


\* query(model).filter(domain == d).first(): the id of a row, 0 for None
ExistingRow(rows, d) ==
    LET m == {i \in 1..Len(rows) : rows[i].domain = d}
    IN  IF m = {} THEN 0 ELSE CHOOSE i \in m : \A j \in m : i <= j

\* a save that never looks for the row of the name
save_AlwaysInsert(rows, result) ==
    Append(rows, SubdomainRow(result.domain, result.is_alive, result.source))

\* SubdomainRepository.save, the commit succeeding: update the row of the
\* name in place, or add a row; last_checked is reset in both cases
save(rows, result) ==
    LET e == ExistingRow(rows, result.domain)
    IN  IF e # 0
        THEN [rows EXCEPT ![e] = [@ EXCEPT !.source = result.source,
                                           !.is_alive = result.is_alive,
                                           !.last_checked = FALSE]]
        ELSE Append(rows, SubdomainRow(result.domain, result.is_alive,
                                       result.source))

\* the saves of the cancellation handler: every result in order, the ones
\* whose index is in failing raise and are skipped
RECURSIVE SaveAll(_, _, _, _)
SaveAll(rows, rs, k, failing) ==
    IF k > Len(rs) THEN rows
    ELSE SaveAll(IF k \in failing THEN rows ELSE save(rows, rs[k]),
                 rs, k + 1, failing)

\* the loop `for domain in domains_to_process` up to the next suspension:
\* _process_subdomain returns at once for a name in self.discovered
RECURSIVE SkipDiscovered(_, _)
SkipDiscovered(q, seen) ==
    IF q = << >> THEN << >>
    ELSE IF Head(q) \in seen THEN SkipDiscovered(Tail(q), seen)
         ELSE q

RECURSIVE FilterNew(_, _)
FilterNew(q, seen) ==
    IF q = << >> THEN << >>
    ELSE IF Head(q) \in seen THEN FilterNew(Tail(q), seen)
         ELSE <<Head(q)>> \o FilterNew(Tail(q), seen)

\* a loop that validates every name of q, also one in self.discovered
NextCandidate_NoCheck(q) ==
    IF q = << >>
    THEN /\ dpc' = "returned"
         /\ cur' = NoCandidate
         /\ dq' = << >>
         /\ UNCHANGED discovered
    ELSE /\ dpc' = "passive"
         /\ cur' = [domain |-> Head(q), source |-> "PASSIVE"]
         /\ discovered' = discovered \cup {Head(q)}
         /\ dq' = Tail(q)

\* enter the validation of the next name of q, or return self.results
NextCandidate(q) ==
    LET rest == SkipDiscovered(q, discovered)
    IN  IF rest = << >>
        THEN /\ dpc' = "returned"
             /\ cur' = NoCandidate
             /\ dq' = << >>
             /\ UNCHANGED discovered
        ELSE /\ dpc' = "passive"
             /\ cur' = [domain |-> Head(rest), source |-> "PASSIVE"]
             /\ discovered' = discovered \cup {Head(rest)}
             /\ dq' = Tail(rest)

\* a discover that hands the seed to _process_subdomain as a name of the
\* passive scan
DiscoverStart_AsPassive(target) ==
    /\ discover_calls' = discover_calls + 1
    /\ discovered' = {target}
    /\ results' = << >>
    /\ dq' = << >>
    /\ cur' = [domain |-> target, source |-> "PASSIVE"]
    /\ dpc' = "base"
    /\ save_log' = << >>
    /\ UNCHANGED last_save

\* discover(target) up to the probes of the seed: the state is reset and
\* the seed enters _process_subdomain with source BASE
DiscoverStart(target) ==
    /\ discover_calls' = discover_calls + 1
    /\ discovered' = {target}
    /\ results' = << >>
    /\ dq' = << >>
    /\ cur' = [domain |-> target, source |-> "BASE"]
    /\ dpc' = "base"
    /\ save_log' = << >>
    /\ UNCHANGED last_save

\* a _process_subdomain that leaves the saving to the end of discover
ProbesReturn_SavesLater ==
    /\ dpc \in {"base", "passive"}
    /\ \E ips \in BOOLEAN, saved \in BOOLEAN :
          LET result == [domain |-> cur.domain, source |-> cur.source,
                         is_alive |-> ips]
          IN  /\ results' = Append(results, result)
              /\ subdomains' = subdomains
              /\ last_save' = IF ~saved THEN "later"
                              ELSE IF ExistingRow(subdomains, result.domain) # 0
                                   THEN "update" ELSE "insert"
    /\ save_log' = Append(save_log, last_save')
    /\ IF dpc = "base"
       THEN /\ dpc' = "scan"
            /\ cur' = NoCandidate
            /\ UNCHANGED <<discovered, dq>>
       ELSE NextCandidate(dq)
    /\ UNCHANGED <<endpoints, js_files, vulnerabilities, discover_calls,
                   crawlVars, coordVars, cancel, restVars>>

\* _process_subdomain after the three probes: the record is appended to
\* self.results and saved; a failed save is logged and skipped
ProbesReturn ==
    /\ dpc \in {"base", "passive"}
    /\ \E ips \in BOOLEAN, saved \in BOOLEAN :
          LET result == [domain |-> cur.domain, source |-> cur.source,
                         is_alive |-> ips]
          IN  /\ results' = Append(results, result)
              /\ subdomains' = IF saved THEN save(subdomains, result)
                               ELSE subdomains
              /\ last_save' = IF ~saved THEN "failed"
                              ELSE IF ExistingRow(subdomains, result.domain) # 0
                                   THEN "update" ELSE "insert"
    /\ save_log' = Append(save_log, last_save')
    /\ IF dpc = "base"
       THEN /\ dpc' = "scan"
            /\ cur' = NoCandidate
            /\ UNCHANGED <<discovered, dq>>
       ELSE NextCandidate(dq)
    /\ UNCHANGED <<endpoints, js_files, vulnerabilities, discover_calls,
                   crawlVars, coordVars, cancel, restVars>>

\* scanner.scan(target) returns: the names not yet in self.discovered are
\* the domains_to_process
ScanReturnsFrom(outputs) ==
    /\ dpc = "scan"
    /\ \E found \in outputs : NextCandidate(FilterNew(found, discovered))
    /\ UNCHANGED <<storeVars, results, discover_calls, last_save, save_log,
                   crawlVars,
                   coordVars, cancel, restVars>>

ScanReturns == ScanReturnsFrom(ScanOutputs)

\* the scanner passes on the hosts as its sources spell them, so a host
\* may come in two spellings
ScanReturnsSpellings ==
    ScanReturnsFrom(ScanOutputs \cup { <<SubA, <<"A", "t">> >> })

\* scanner.scan(target) raises: discover logs and re-raises
ScanRaises ==
    /\ dpc = "scan"
    /\ dpc' = "raised"
    /\ UNCHANGED <<storeVars, discovered, results, dq, cur, discover_calls,
                   last_save, save_log, crawlVars, coordVars, cancel,
                   restVars>>

\* the DNS or the CNAME lookup of the name under validation never answers:
\* gather awaits the three probes with no limit of its own (only the HTTP
\* probe carries a timeout), and the loop of discover awaits the validation
ValidationHangs ==
    /\ dpc \in {"base", "passive"}
    /\ dpc' = "hung"
    /\ UNCHANGED <<storeVars, discovered, results, dq, cur, discover_calls,
                   last_save, save_log, crawlVars, coordVars, cancel,
                   restVars>>

\* CancelledError at a suspension point of discover: every result is saved
\* again, then the error is re-raised
DiscoverCancelled ==
    /\ dpc \in {"base", "scan", "passive", "hung"}
    /\ \E failing \in SUBSET (1..Len(results)) :
          subdomains' = SaveAll(subdomains, results, 1, failing)
    /\ dpc' = "cancelled"
    /\ UNCHANGED <<endpoints, js_files, vulnerabilities, discovered, results,
                   dq, cur, discover_calls, last_save, save_log, crawlVars,
                   coordVars>>

----------------------------------------------------------------------------
(* main.py handle_discovery: the discover command, run again and again *)

HandleDiscovery ==
    /\ dpc \in {"idle", "returned", "raised", "cancelled"}
    /\ discover_calls < MaxDiscoverCalls
    /\ \E arg \in SeedSpellings : DiscoverStart(clean_target_url(arg))
    /\ UNCHANGED <<storeVars, crawlVars, coordVars, cancel, restVars>>

\* Ctrl-C during the command
DiscoveryInterrupted ==
    /\ DiscoverCancelled
    /\ UNCHANGED <<cancel, restVars>>

InitDiscover ==
    /\ subdomains = << >>
    /\ endpoints = EmptyBag
    /\ js_files = EmptyBag
    /\ vulnerabilities = 0
    /\ CrawlIdle
    /\ DiscoveryIdle
    /\ CoordinatorIdle
    /\ cancel = "none"
    /\ katana_exists = TRUE
    /\ RestIdle

NextDiscover ==
    \/ HandleDiscovery
    \/ ProbesReturn
    \/ ScanReturnsSpellings
    \/ ScanRaises
    \/ DiscoveryInterrupted
    \/ ValidationHangs

SpecDiscover == InitDiscover /\ [][NextDiscover]_vars

\* the event loop runs every ready coroutine: probes that answer are taken
\* up and the scanner's process ends.  Nothing makes the user start the
\* command or interrupt it.
FairSpecDiscover ==
    /\ SpecDiscover
    /\ WF_vars(ProbesReturn)
    /\ WF_vars(ScanReturnsSpellings \/ ScanRaises)

\* C10: after any sequence of discover calls the Store holds at most one
\* Subdomain row per domain name: a later discover updates the row of a
\* stored name in place.
C10_OneRowPerName ==
    \A i, j \in 1..Len(subdomains) :
       subdomains[i].domain = subdomains[j].domain => i = j

\* the second discover call has just saved a name that already had a row
C10_Witness ==
    /\ discover_calls = 2
    /\ last_save = "update"
    /\ Len(subdomains) >= 2
    /\ Len(results) >= 1
    /\ LET r == results[Len(results)]
       IN  \E i \in 1..Len(subdomains) :
              /\ subdomains[i].domain = r.domain
              /\ subdomains[i].is_alive = r.is_alive
              /\ subdomains[i].source = r.source

\* the seed was validated first, as BASE, and every name after it as
\* PASSIVE
SeedFirst ==
    /\ Len(results) >= 1
    /\ results[1].source = "BASE"
    /\ \A k \in 2..Len(results) : results[k].source = "PASSIVE"

\* the Store holds a row of the seed whose source is BASE
SeedRowIsBase ==
    \E i \in 1..Len(subdomains) :
       /\ subdomains[i].domain = results[1].domain
       /\ subdomains[i].source = "BASE"

RowOf(result) ==
    \E i \in 1..Len(subdomains) :
       /\ subdomains[i].domain = result.domain
       /\ subdomains[i].is_alive = result.is_alive
       /\ subdomains[i].source = result.source

HostOf(d) == RStrip(DropPrefix(DropPrefix(LowerAll(d), "https://"), "http://"))

\* C11: two spellings of one host that differ only in letter case, scheme
\* prefix or trailing slash, given as the seed or reported by the passive
\* scanner, are stored in one and the same Subdomain row.
C11_SpellingsShareOneRow ==
    \A i, j \in 1..Len(subdomains) :
       HostOf(subdomains[i].domain) = HostOf(subdomains[j].domain) => i = j

----------------------------------------------------------------------------
(* NetworkOperations and the validation of one name *)

\* what resolver.query(domain, 'A') does: it raises, or answers with hosts
DnsAnswers ==
    { [ok |-> FALSE, hosts |-> << >>],
      [ok |-> TRUE, hosts |-> << >>],
      [ok |-> TRUE, hosts |-> <<"10.0.0.1">>],
      [ok |-> TRUE, hosts |-> <<"10.0.0.1", "10.0.0.2">>] }

\* what the GET of http://domain does: it raises, or answers with a status
HttpResponses ==
    { [ok |-> FALSE, status |-> NoStatus],
      [ok |-> TRUE, status |-> 200],
      [ok |-> TRUE, status |-> 301],
      [ok |-> TRUE, status |-> 503] }

\* resolve_domain: the hosts of the answers, [] when the query raised
resolve_domain(answer) == IF answer.ok THEN answer.hosts ELSE << >>

\* probe_http: (status, text), (None, None) when the request raised
probe_http(response) ==
    IF response.ok THEN <<response.status, "text">> ELSE <<NoStatus, "None">>

\* check_takeover_vulnerability: True only for a CNAME whose target does
\* not resolve
check_takeover_vulnerability(lookup) == lookup = "dangling"

\* an element of the list asyncio.gather(..., return_exceptions=True)
\* returns: the value of the coroutine, or the exception it raised
Returned(v) == [exc |-> FALSE, value |-> v]

\* a merge for which a name is alive only if its web server answered too
ValidationRecord_NeedsHttp(domain, source, gathered) ==
    LET ips == IF gathered[1].exc THEN << >> ELSE gathered[1].value
        status == IF gathered[2].exc THEN NoStatus
                  ELSE IF gathered[2].value # << >>
                       THEN gathered[2].value[1] ELSE NoStatus
        takeover == IF gathered[3].exc THEN FALSE ELSE gathered[3].value
    IN  [domain |-> domain,
         source |-> source,
         ip_addresses |-> ips,
         is_alive |-> ips # << >> /\ status # NoStatus,
         http_status |-> status,
         is_takeover_candidate |-> takeover]

\* _process_subdomain: the result dict made from what gather returned
ValidationRecord(domain, source, gathered) ==
    LET ips == IF gathered[1].exc THEN << >> ELSE gathered[1].value
        status == IF gathered[2].exc THEN NoStatus
                  ELSE IF gathered[2].value # << >>
                       THEN gathered[2].value[1] ELSE NoStatus
        takeover == IF gathered[3].exc THEN FALSE ELSE gathered[3].value
    IN  [domain |-> domain,
         source |-> source,
         ip_addresses |-> ips,
         is_alive |-> ips # << >>,
         http_status |-> status,
         is_takeover_candidate |-> takeover]

\* _process_subdomain starts the three probes of a name
StartValidation ==
    /\ vpc \in {"idle", "validated"}
    /\ vpc' = "gather"
    /\ \E answer \in DnsAnswers, response \in HttpResponses,
          lookup \in {"no_cname", "resolves", "dangling", "error"} :
          probes' = [dns |-> answer, http |-> response, cname |-> lookup]
    /\ \E d \in {Base, SubA} :
          validation' = [domain |-> d]
    /\ UNCHANGED <<scanVars, xssVars, svcVars, cleanVars>>

\* gather returns and the result dict is made
GatherReturns ==
    /\ vpc = "gather"
    /\ vpc' = "validated"
    /\ validation' =
          ValidationRecord(validation.domain,
                           IF validation.domain = Base THEN "BASE"
                           ELSE "PASSIVE",
                           << Returned(resolve_domain(probes.dns)),
                              Returned(probe_http(probes.http)),
                              Returned(check_takeover_vulnerability(
                                           probes.cname)) >>)
    /\ UNCHANGED <<probes, scanVars, xssVars, svcVars, cleanVars>>

InitValidate ==
    /\ subdomains = << >>
    /\ endpoints = EmptyBag
    /\ js_files = EmptyBag
    /\ vulnerabilities = 0
    /\ CrawlIdle
    /\ DiscoveryIdle
    /\ CoordinatorIdle
    /\ cancel = "none"
    /\ katana_exists = TRUE
    /\ ProbeIdle
    /\ XssIdle
    /\ ServiceIdle
    /\ target_arg = << >>
    /\ self_target = << >>

NextValidate ==
    \/ StartValidation
    \/ GatherReturns

SpecValidate == InitValidate /\ [][NextValidate]_vars

\* C26: the validation record of a name is alive exactly when the A query
\* answered with at least one host, whatever the HTTP probe and the
\* takeover check did; and each probe that gave a result has it recorded,
\* whatever the other probes did.
C26_LivenessFromResolutionOnly ==
    vpc = "validated" =>
       /\ validation.is_alive = (probes.dns.ok /\ probes.dns.hosts # << >>)
       /\ probes.dns.ok => validation.ip_addresses = probes.dns.hosts
       /\ probes.http.ok => validation.http_status = probes.http.status
       /\ validation.is_takeover_candidate = (probes.cname = "dangling")

\* a name that resolves while its web server does not answer is alive, and
\* the takeover check of the name is recorded
C26_Witness ==
    /\ vpc = "validated"
    /\ probes.dns.ok
    /\ ~probes.http.ok
    /\ probes.cname = "dangling"
    /\ validation.is_alive
    /\ validation.http_status = NoStatus
    /\ validation.is_takeover_candidate

----------------------------------------------------------------------------
(* ScanCoordinator *)

\* self.target = clean_target_url(target)
Target == clean_target_url(<<"HTTPS://", "www", "T", "/">>)

\* (Subdomain.domain == target) | (Subdomain.domain.like('%.' + target))
InScope(d, t) ==
    \/ d = t
    \/ /\ Len(d) > Len(t)
       /\ SubSeq(d, Len(d) - Len(t) + 1, Len(d)) = t

InScopeIds(rows) == {i \in 1..Len(rows) : InScope(rows[i].domain, Target)}

\* the query of _run_scan: live, never checked, in the scope of the target
LiveUncrawled(rows) ==
    {i \in InScopeIds(rows) : rows[i].is_alive /\ ~rows[i].last_checked}

\* the query of the cancellation handler of start_scan
FallbackRows(rows) == 1..Len(rows)

\* the rows as they are in the Store when they are given to the crawl
Snapshot(ids, path) ==
    {[id |-> i, is_alive |-> subdomains[i].is_alive,
      last_checked |-> subdomains[i].last_checked, path |-> path] : i \in ids}

\* _count_endpoints, _count_js_files: rows joined to a subdomain in scope
CountInScope(bag) ==
    LET ks == {k \in BagToSet(bag) : k[1] \in InScopeIds(subdomains)}
    IN  BagCardinality([k \in ks |-> bag[k]])

\* _generate_scan_report(session, error) with the counters and with
\* self.completion_time as they are when it is called; the counts are zero
\* in an error report
GenerateReportAt(error, total, crawled, completion) ==
    /\ completion_time' = IF completion = NoTime THEN now ELSE completion
    /\ report' = [status |-> IF error = "" THEN "completed" ELSE "error",
                  error |-> error,
                  start_time |-> start_time,
                  completion_time |-> completion_time',
                  duration_seconds |-> completion_time' - start_time,
                  total_subdomains |-> total,
                  live_subdomains |-> crawled,
                  endpoints_discovered |->
                      IF error = "" THEN CountInScope(endpoints) ELSE 0,
                  js_files_found |->
                      IF error = "" THEN CountInScope(js_files) ELSE 0,
                  vulnerabilities_found |->
                      IF error = "" THEN vulnerabilities ELSE 0]
    /\ n_reports' = n_reports + 1
    /\ UNCHANGED <<now, start_time>>

GenerateReport(error, total, crawled) ==
    GenerateReportAt(error, total, crawled, completion_time)

\* CrawlingService(session) followed by crawl_specific_targets(ids)
NewServiceCrawl(ids) ==
    /\ max_concurrent_crawls' = CrawlingService_init.max_concurrent_crawls
    /\ crawl_semaphore' = CrawlingService_init.crawl_semaphore
    /\ ScheduleCrawl(ids)
    /\ UNCHANGED engine_calls

\* _run_scan returns the report it generated
RunReturns(error, total, crawled) ==
    /\ GenerateReport(error, total, crawled)
    /\ total_subdomains' = total
    /\ crawled_subdomains' = crawled
    /\ cpc' = "run_returned"

\* start_scan: the clock is started and _run_scan enters discovery
StartScanAt(positions) ==
    /\ cpc \in positions
    /\ cpc' = "discovering"
    /\ phase_log' = <<"discovery">>
    /\ start_time' = now
    /\ DiscoverStart(Target)
    /\ UNCHANGED <<storeVars, crawlVars, new_active, total_subdomains,
                   crawled_subdomains, report, n_reports, handed, cancel, restVars,
                   now, completion_time>>

StartScan == StartScanAt({"not_started"})

\* wait_for(discover, 900) expires: discover is cancelled and _run_scan
\* handles the TimeoutError
DiscoveryPhaseTimeout ==
    /\ cpc = "discovering"
    /\ DiscoverCancelled
    /\ UNCHANGED <<cancel, restVars>>

\* the task of start_scan is cancelled during discovery: _run_scan
\* handles the CancelledError like the timeout and goes on
UserCancelDiscovery ==
    /\ cpc = "discovering"
    /\ cancel = "none"
    /\ DiscoverCancelled
    /\ cancel' = "swallowed"
    /\ UNCHANGED restVars

\* _run_scan after Phase 1: the total, the query of the eligible rows and
\* either the report (none eligible) or the start of _scan_vulnerabilities
AfterDiscovery ==
    /\ cpc = "discovering"
    /\ dpc \in {"returned", "cancelled", "raised"}
    /\ IF dpc = "raised"
       THEN /\ RunReturns("exception", total_subdomains, crawled_subdomains)
            /\ UNCHANGED <<new_active, phase_log>>
       ELSE LET total == IF dpc = "returned" THEN Len(results)
                         ELSE Cardinality(InScopeIds(subdomains))
                eligible == LiveUncrawled(subdomains)
            IN  /\ new_active' = eligible
                /\ IF eligible = {}
                   THEN /\ RunReturns("", total, crawled_subdomains)
                        /\ UNCHANGED phase_log
                   ELSE /\ total_subdomains' = total
                        /\ cpc' = "vuln"
                        /\ phase_log' = Append(phase_log, "vulnerability")
                        /\ UNCHANGED <<crawled_subdomains, report, n_reports,
                                       now, start_time, completion_time>>
    /\ UNCHANGED <<storeVars, crawlVars, discVars, handed, cancel, restVars>>

\* _scan_vulnerabilities returns: the findings are committed, then the
\* crawl of new_active_subdomains starts
VulnReturns ==
    /\ cpc = "vuln"
    /\ \E n \in 0..(IF CountInScope(endpoints) > 0 THEN 1 ELSE 0) :
          vulnerabilities' = vulnerabilities + n
    /\ IF katana_exists
       THEN /\ NewServiceCrawl(new_active)
            /\ handed' = handed \cup Snapshot(new_active, "normal")
            /\ phase_log' = Append(phase_log, "crawl")
            /\ cpc' = "crawling"
            /\ UNCHANGED <<total_subdomains, crawled_subdomains, report,
                           n_reports, now, start_time, completion_time>>
       ELSE /\ RunReturns("exception", total_subdomains, crawled_subdomains)
            /\ phase_log' = phase_log \o <<"crawl", "crawl_end">>
            /\ UNCHANGED <<crawlVars, handed>>
    /\ UNCHANGED <<subdomains, endpoints, js_files, discVars, new_active,
                   cancel, restVars>>

\* _scan_vulnerabilities raises, or its 900 s expire: an error report
VulnFails ==
    /\ cpc = "vuln"
    /\ \E error \in {"exception", "Vulnerability scanning phase timed out"} :
          /\ RunReturns(error, total_subdomains, crawled_subdomains)
          /\ phase_log' = IF error = "exception" THEN phase_log
                          ELSE Append(phase_log, "vulnerability_timeout")
    /\ UNCHANGED <<storeVars, crawlVars, discVars, new_active, handed, cancel, restVars>>

\* `except asyncio.CancelledError` of start_scan: every Subdomain row is
\* queried and crawled, then the report is generated
Fallback ==
    LET rows == FallbackRows(subdomains)
    IN  IF rows # {} /\ katana_exists
        THEN /\ NewServiceCrawl(rows)
             /\ handed' = handed \cup Snapshot(rows, "fallback")
             /\ phase_log' = Append(phase_log, "crawl")
             /\ cpc' = "fallback"
             /\ UNCHANGED <<total_subdomains, crawled_subdomains, report,
                            n_reports, now, start_time, completion_time>>
        ELSE /\ GenerateReport("", total_subdomains, crawled_subdomains)
             /\ cpc' = "done"
             /\ UNCHANGED <<crawlVars, handed, phase_log, total_subdomains,
                            crawled_subdomains>>

\* the task is cancelled during _scan_vulnerabilities: nothing in
\* _run_scan catches the CancelledError
UserCancelVuln ==
    /\ cpc = "vuln"
    /\ cancel = "none"
    /\ cancel' = "delivered"
    /\ UNCHANGED restVars
    /\ Fallback
    /\ UNCHANGED <<storeVars, discVars, new_active>>

\* the workers that are waiting for a slot or for the engine are cancelled
CancelWorkers ==
    /\ \A i \in tasks : wpc[i] \notin {"process", "mark"}
    /\ wpc' = [i \in tasks |-> IF wpc[i] = "done" THEN "done" ELSE "cancelled"]
    /\ crawl_semaphore' = crawl_semaphore + Cardinality(InFlight)
    /\ spc' = "cancelled"
    /\ UNCHANGED <<max_concurrent_crawls, tasks, wres, wret, wout, weng, wscn,
                   success_count, failed_logged, engine_calls>>

\* crawl_specific_targets returned: the counters, the completion time and
\* the report
CrawlPhaseDone ==
    /\ cpc = "crawling"
    /\ spc = "returned"
    /\ phase_log' = Append(phase_log, "crawl_end")
    /\ GenerateReportAt("", total_subdomains, Cardinality(new_active), now)
    /\ crawled_subdomains' = Cardinality(new_active)
    /\ cpc' = "run_returned"
    /\ UNCHANGED total_subdomains
    /\ UNCHANGED <<storeVars, crawlVars, discVars, new_active, handed, cancel, restVars>>

\* a crawl phase whose timeout is handled as the one of discovery is:
\* logged, and the run goes on to its normal end
CrawlPhaseTimeout_GoesOn ==
    /\ cpc = "crawling"
    /\ spc = "gather"
    /\ CancelWorkers
    /\ phase_log' = phase_log \o <<"crawl_timeout", "crawl_end">>
    /\ RunReturns("", total_subdomains, Cardinality(new_active))
    /\ UNCHANGED <<storeVars, discVars, new_active, handed, cancel, restVars>>

\* wait_for(crawl_specific_targets, 1800) expires
CrawlPhaseTimeout ==
    /\ cpc = "crawling"
    /\ spc = "gather"
    /\ CancelWorkers
    /\ phase_log' = phase_log \o <<"crawl_timeout", "crawl_end">>
    /\ RunReturns("Crawling phase timed out", total_subdomains,
                  crawled_subdomains)
    /\ UNCHANGED <<storeVars, discVars, new_active, handed, cancel, restVars>>

\* the task is cancelled during the crawl.  The handler of
\* crawl_specific_targets calls task.done() on coroutine objects and its
\* AttributeError replaces the CancelledError.  Where wait_for awaits the
\* coroutine in the task itself (asyncio 3.12) _run_scan reports that error
\* and start_scan returns the report; where wait_for runs it as a task of
\* its own (asyncio up to 3.11) both wait_for re-raise the CancelledError
\* they caught and the cancellation handler of start_scan takes over.
UserCancelCrawl ==
    /\ cpc = "crawling"
    /\ spc = "gather"
    /\ cancel = "none"
    /\ \/ /\ cancel' = "absorbed"
          /\ UNCHANGED restVars
          /\ CancelWorkers
          /\ phase_log' = Append(phase_log, "crawl_end")
          /\ RunReturns("exception", total_subdomains, crawled_subdomains)
          /\ UNCHANGED <<new_active, handed>>
       \/ /\ \A i \in tasks : wpc[i] \notin {"process", "mark"}
          /\ cancel' = "delivered_crawl"
          /\ UNCHANGED restVars
          /\ Fallback
          /\ UNCHANGED new_active
    /\ UNCHANGED <<storeVars, discVars>>

\* wait_for(_run_scan) hands the report to start_scan.  When _run_scan
\* swallowed the cancellation, wait_for either returns the report or
\* raises the CancelledError it kept (the two behaviours of asyncio).
ReturnFromRunScan ==
    /\ cpc = "run_returned"
    /\ \/ /\ cpc' = "done"
          /\ UNCHANGED <<crawlVars, coordVarsButPc, cancel, restVars>>
       \/ /\ cancel = "swallowed"
          /\ cancel' = "delivered"
          /\ UNCHANGED restVars
          /\ Fallback
          /\ UNCHANGED new_active
    /\ UNCHANGED <<storeVars, discVars>>

\* the crawl of the cancellation handler returned
FallbackDone ==
    /\ cpc = "fallback"
    /\ spc = "returned"
    /\ phase_log' = Append(phase_log, "crawl_end")
    /\ crawled_subdomains' = Cardinality(tasks)
    /\ GenerateReport("", total_subdomains, Cardinality(tasks))
    /\ cpc' = "done"
    /\ UNCHANGED <<storeVars, crawlVars, discVars, new_active,
                   total_subdomains, handed, cancel, restVars>>

\* the `timeout` of start_scan expires during discovery: wait_for cancels
\* _run_scan, whose `except (TimeoutError, CancelledError)` takes the
\* cancellation for the end of discovery and goes on
OverallTimeoutDiscovery ==
    /\ cpc = "discovering"
    /\ cancel = "none"
    /\ DiscoverCancelled
    /\ cancel' = "timeout_swallowed"
    /\ UNCHANGED restVars

\* it expires during _scan_vulnerabilities: the CancelledError leaves
\* _run_scan, wait_for raises TimeoutError and start_scan reports
\* "Scan timed out"
OverallTimeoutVuln ==
    /\ cpc = "vuln"
    /\ cancel = "none"
    /\ cancel' = "timed_out"
    /\ UNCHANGED restVars
    /\ GenerateReport("Scan timed out", total_subdomains, crawled_subdomains)
    /\ cpc' = "done"
    /\ UNCHANGED <<storeVars, crawlVars, discVars, new_active,
                   total_subdomains, crawled_subdomains, handed, phase_log>>

\* it expires during the crawl: the handler of crawl_specific_targets
\* fails on task.done().  _run_scan reports that error and start_scan
\* returns it (asyncio 3.12), or the inner wait_for re-raises the
\* CancelledError, the outer one turns it into TimeoutError and start_scan
\* reports "Scan timed out" (asyncio up to 3.11).
OverallTimeoutCrawl ==
    /\ cpc = "crawling"
    /\ spc = "gather"
    /\ cancel = "none"
    /\ CancelWorkers
    /\ phase_log' = Append(phase_log, "crawl_end")
    /\ \/ /\ cancel' = "timeout_swallowed"
          /\ UNCHANGED restVars
          /\ RunReturns("exception", total_subdomains, crawled_subdomains)
       \/ /\ cancel' = "timed_out"
          /\ UNCHANGED restVars
          /\ GenerateReport("Scan timed out", total_subdomains,
                            crawled_subdomains)
          /\ cpc' = "done"
          /\ UNCHANGED <<total_subdomains, crawled_subdomains>>
    /\ UNCHANGED <<storeVars, discVars, new_active, handed>>

\* the Store before the scan: empty, or holding the row of another scan,
\* or left by an earlier run (the seed crawled, with an endpoint)
InitStores ==
    { [subdomains |-> << >>, endpoints |-> EmptyBag],
      [subdomains |-> << SubdomainRow(Other, TRUE, "BASE") >>,
       endpoints |-> EmptyBag],
      [subdomains |-> << [SubdomainRow(Base, TRUE, "BASE")
                            EXCEPT !.last_checked = TRUE] >>,
       endpoints |-> SetToBag({<<1, "/a", "GET">>})] }

Init ==
    /\ \E st \in InitStores :
          /\ subdomains = st.subdomains
          /\ endpoints = st.endpoints
    /\ js_files = EmptyBag
    /\ vulnerabilities = 0
    /\ CrawlIdle
    /\ DiscoveryIdle
    /\ CoordinatorIdle
    /\ cancel = "none"
    /\ katana_exists \in BOOLEAN
    /\ RestIdle

Next ==
    \/ StartScan
    \/ ProbesReturn
    \/ ScanReturns
    \/ ScanRaises
    \/ DiscoveryPhaseTimeout
    \/ UserCancelDiscovery
    \/ AfterDiscovery
    \/ VulnReturns
    \/ VulnFails
    \/ UserCancelVuln
    \/ \E i \in tasks : Worker(i)
    \/ GatherDone
    \/ CrawlPhaseDone
    \/ CrawlPhaseTimeout
    \/ UserCancelCrawl
    \/ ReturnFromRunScan
    \/ FallbackDone
    \/ OverallTimeoutDiscovery
    \/ OverallTimeoutVuln
    \/ OverallTimeoutCrawl

Spec == Init /\ [][Next]_vars

----------------------------------------------------------------------------
(* One coordinator whose start_scan is called again after it returned *)

\* time passes
Tick ==
    /\ now < MaxClock
    /\ now' = now + 1
    /\ UNCHANGED <<storeVars, crawlVars, discVars, cpc, new_active,
                   total_subdomains, crawled_subdomains, report, n_reports,
                   handed, phase_log, start_time, completion_time, cancel, restVars>>

\* start_scan is called on the coordinator whose start_scan has returned
StartScanAgain ==
    /\ discover_calls < MaxDiscoverCalls
    /\ StartScanAt({"done"})

\* the scanner finds no name

NextRescan ==
    \/ Tick
    \/ StartScan
    \/ StartScanAgain
    \/ ProbesReturn
    \/ ScanReturnsFrom({<< >>})
    \/ ScanRaises
    \/ AfterDiscovery
    \/ VulnReturns
    \/ VulnFails
    \/ \E i \in tasks : Worker(i)
    \/ GatherDone
    \/ CrawlPhaseDone
    \/ CrawlPhaseTimeout
    \/ ReturnFromRunScan

SpecRescan == Init /\ [][NextRescan]_vars

\* C1: in a run with at least one eligible target the phases run in the
\* order discovery, crawl, vulnerability scanning: the vulnerability scan
\* never starts before the crawl of the run has ended.
C1_VulnerabilityAfterCrawl ==
    \A i \in 1..Len(phase_log) :
       phase_log[i] = "vulnerability" =>
          \E j \in 1..(i - 1) : phase_log[j] = "crawl_end"

\* C2: every row given to the crawl, on the normal path and in the
\* cancellation fallback, was live and never checked when it was selected,
\* and katana.crawl_all is never called for a row that is not live.
C2_OnlyEligibleCrawled ==
    /\ \A h \in handed : h.is_alive /\ ~h.last_checked
    /\ \A i \in BagToSet(engine_calls) : subdomains[i].is_alive

C14_CancelledDiscoveryTargets ==
    dpc = "cancelled" =>
       LET persisted == InScopeIds(subdomains)
       IN  /\ \A h \in handed : h.id \in persisted
           /\ report # NoReport =>
                 /\ report.total_subdomains = Cardinality(persisted)
                 /\ report.live_subdomains <= Cardinality(persisted)

\* C15: when discover returned, timed out or was cancelled, the phase that
\* starts next is the crawl, and no error report is made before a further
\* phase has started.
C15_DiscoveryLeadsToCrawl ==
    dpc \in {"returned", "cancelled"} =>
       /\ Len(phase_log) >= 2 => phase_log[2] = "crawl"
       /\ (report # NoReport /\ report.status = "error") => Len(phase_log) >= 2

PhaseTimeouts == {"crawl_timeout", "vulnerability_timeout"}

TimedOut(phase) == \E k \in 1..Len(phase_log) : phase_log[k] = phase

Expired == {"timeout_swallowed", "timed_out"}

\* a step taken after the timeout of start_scan has expired starts nothing
NoNewWorkOnceExpired ==
    cancel \in Expired =>
       /\ engine_calls' = engine_calls
       /\ results' = results
       /\ \A k \in (Len(phase_log) + 1)..Len(phase_log') :
             phase_log'[k] \notin {"discovery", "vulnerability", "crawl"}

\* C18: once the timeout of start_scan has expired no phase is started, no
\* name is validated and katana.crawl_all is not called any more.
C18_NoNewWorkAfterOverallTimeout == [][NoNewWorkOnceExpired]_vars

\* the values of `cancel` after a cancellation of the task during the crawl
CancelledInCrawl == {"absorbed", "delivered_crawl"}

\* a step taken after the task was cancelled during the crawl phase calls
\* katana.crawl_all for nobody
NoEngineCallOnceCancelled ==
    cancel \in CancelledInCrawl => engine_calls' = engine_calls

C20_OneReportPerRun == cpc = "done" => n_reports = 1

\* C21: every report has a completion time that is not earlier than its
\* start time, whatever the number of start_scan calls on the coordinator.
C21_CompletionNotBeforeStart ==
    report # NoReport => report.completion_time >= report.start_time

\* C22: the report of a run has a status, and the report of a run that
\* was cancelled or whose overall timeout expired is an error report with
\* an error string.
C22_InterruptedRunReportsError ==
    cpc = "done" =>
       /\ report.status \in {"completed", "error"}
       /\ cancel # "none" =>
             /\ report.status = "error"
             /\ report.error # ""

\* C23: the counts of the report start_scan returns are the numbers of
\* rows the Store holds for the target when the report is made, in an
\* error report as in any other.
C23_ReportCountsAreStoreCounts ==
    cpc = "done" =>
       /\ report.total_subdomains = Cardinality(InScopeIds(subdomains))
       /\ report.endpoints_discovered = CountInScope(endpoints)
       /\ report.js_files_found = CountInScope(js_files)
       /\ report.vulnerabilities_found = vulnerabilities

\* C24: on a host without the binary of katana no phase of the run starts,
\* no name is validated and no validation record is saved.
C24_MissingBinaryFailsFast ==
    ~katana_exists =>
       /\ phase_log = << >>
       /\ results = << >>
       /\ last_save = "none"

\* a step changes the last_checked of a row only by setting it at the end
\* of the worker of that row, after a crawl that gave records
WatermarkOnlyByCrawl ==
    \A i \in 1..Len(subdomains) :
       subdomains'[i].last_checked # subdomains[i].last_checked =>
          /\ subdomains'[i].last_checked
          /\ i \in tasks
          /\ wpc[i] = "mark"
          /\ weng[i] = "records"

\* C28: last_checked of a Subdomain row is written only by the crawl
\* phase, after a successful crawl of the row; discovery, the save of a
\* name that is found again and the cancellation handling leave it alone.
C28_WatermarkWrittenOnlyByCrawl == [][WatermarkOnlyByCrawl]_vars

----------------------------------------------------------------------------
(* XSSScanner and ScanCoordinator._scan_vulnerabilities *)

\* Endpoint.parameters as CrawlingService stores it: the dict _parse_url
\* builds has the key 'query' when the URL has a query string and the key
\* 'path' when it has path segments, in this order
ParameterDicts == {<< >>, <<"query">>, <<"path">>, <<"query", "path">>}

\* what the server did with one test request: the request raised, or the
\* response text holds the payload, its HTML-escaped form, both or neither
Responses ==
    {r \in [raised : BOOLEAN, has_payload : BOOLEAN, has_escaped : BOOLEAN] :
        r.raised => ~r.has_payload /\ ~r.has_escaped}

\* _is_valid_xss(response_text, payload); '<' in payload and '>' in payload
\* is true of the first three payloads
_is_valid_xss(response, k) ==
    ~(k \in {1, 2, 3} /\ response.has_escaped /\ ~response.has_payload)

\* XSSFinding(...)
XSSFinding(id, name, k) ==
    [endpoint_id |-> id, parameter |-> name, payload |-> k]

\* the query of scan_target: the rows with parameters != None, by id
SelectWithParameters(rows) ==
    SelectSeq([i \in 1..Len(rows) |-> i],
              LAMBDA i : rows[i] # NoParameters)

\* scan_endpoint returns; scan_target extends its list and takes the next
\* endpoint, or returns after the last
EndpointReturns ==
    /\ xss_scanned' = xss_scanned \cup {xss_selected[xss_at.e]}
    /\ xss_at' = [e |-> xss_at.e + 1, p |-> 0, k |-> 0]
    /\ xpc' = IF xss_at.e + 1 > Len(xss_selected) THEN "save" ELSE "endpoint"

\* the loop over the parameters goes on
NextParameter ==
    IF xss_at.p + 1 <= Len(xss_endpoints[xss_selected[xss_at.e]])
    THEN /\ xss_at' = [xss_at EXCEPT !.p = xss_at.p + 1, !.k = 1]
         /\ UNCHANGED <<xpc, xss_scanned>>
    ELSE EndpointReturns

\* the loop over the payloads goes on: `if i >= self.max_payloads_per_param:
\* break`, i counted from 0
NextPayload ==
    IF xss_at.k + 1 \in Payloads /\ xss_at.k < max_payloads_per_param
    THEN /\ xss_at' = [xss_at EXCEPT !.k = xss_at.k + 1]
         /\ UNCHANGED <<xpc, xss_scanned>>
    ELSE NextParameter

\* _scan_vulnerabilities: the scanner is set up and scan_target runs its
\* query
VulnScanStart ==
    /\ xpc = "idle"
    /\ xss_selected' = SelectWithParameters(xss_endpoints)
    /\ IF xss_selected' = << >>
       THEN /\ xpc' = "save"
            /\ UNCHANGED xss_at
       ELSE /\ xpc' = "endpoint"
            /\ xss_at' = [e |-> 1, p |-> 0, k |-> 0]
    /\ UNCHANGED <<xss_endpoints, findings, xss_scanned, xss_raised,
                   xss_reflected, xss_saved>>
    /\ UNCHANGED <<scanVars, probeVars, svcVars, cleanVars>>

\* scan_endpoint is called: `if not endpoint.parameters: return findings`
ScanEndpoint ==
    /\ xpc = "endpoint"
    /\ IF xss_endpoints[xss_selected[xss_at.e]] = << >>
       THEN EndpointReturns
       ELSE /\ xpc' = "probe"
            /\ xss_at' = [xss_at EXCEPT !.p = 1, !.k = 1]
            /\ UNCHANGED xss_scanned
    /\ UNCHANGED <<xss_endpoints, xss_selected, findings, xss_raised,
                   xss_reflected, xss_saved>>
    /\ UNCHANGED <<scanVars, probeVars, svcVars, cleanVars>>

\* a test request whose exception leaves scan_endpoint and scan_target
TestPayload_Unguarded ==
    /\ xpc = "probe"
    /\ \E response \in Responses :
          LET id == xss_selected[xss_at.e]
              name == xss_endpoints[id][xss_at.p]
          IN  IF response.raised
              THEN /\ xss_raised' = xss_raised \cup {id}
                   /\ xpc' = "failed"
                   /\ UNCHANGED <<findings, xss_reflected, xss_at,
                                  xss_scanned>>
              ELSE IF response.has_payload
              THEN /\ findings' =
                         IF _is_valid_xss(response, xss_at.k)
                         THEN Append(findings,
                                     XSSFinding(id, name, xss_at.k))
                         ELSE findings
                   /\ xss_reflected' =
                         xss_reflected \cup {<<id, name, xss_at.k>>}
                   /\ NextParameter
                   /\ UNCHANGED xss_raised
              ELSE /\ NextPayload
                   /\ UNCHANGED <<findings, xss_raised, xss_reflected>>
    /\ UNCHANGED <<xss_endpoints, xss_selected, xss_saved>>
    /\ UNCHANGED <<scanVars, probeVars, svcVars, cleanVars>>

\* one pass of the payload loop of scan_endpoint: the request is sent and
\* the response looked at inside try/except Exception; an exception is
\* logged and the loop goes on; a response that holds the payload ends the
\* loop of this parameter (stop_on_first_finding)
TestPayload ==
    /\ xpc = "probe"
    /\ \E response \in Responses :
          LET id == xss_selected[xss_at.e]
              name == xss_endpoints[id][xss_at.p]
          IN  IF response.raised
              THEN /\ xss_raised' = xss_raised \cup {id}
                   /\ NextPayload
                   /\ UNCHANGED <<findings, xss_reflected>>
              ELSE IF response.has_payload
              THEN /\ findings' =
                         IF _is_valid_xss(response, xss_at.k)
                         THEN Append(findings,
                                     XSSFinding(id, name, xss_at.k))
                         ELSE findings
                   /\ xss_reflected' =
                         xss_reflected \cup {<<id, name, xss_at.k>>}
                   /\ NextParameter
                   /\ UNCHANGED xss_raised
              ELSE /\ NextPayload
                   /\ UNCHANGED <<findings, xss_raised, xss_reflected>>
    /\ UNCHANGED <<xss_endpoints, xss_selected, xss_saved>>
    /\ UNCHANGED <<scanVars, probeVars, svcVars, cleanVars>>

\* scan_target returned: one Vulnerability per finding is added and the
\* session committed; the commit may raise, which ends the phase
SaveFindings ==
    /\ xpc = "save"
    /\ \/ /\ xss_saved' = findings
          /\ xpc' = "done"
       \/ /\ xpc' = "failed"
          /\ UNCHANGED xss_saved
    /\ UNCHANGED <<xss_endpoints, xss_selected, xss_at, findings,
                   xss_scanned, xss_raised, xss_reflected>>
    /\ UNCHANGED <<scanVars, probeVars, svcVars, cleanVars>>

\* wait_for(_scan_vulnerabilities, 900) expires, or the task is cancelled,
\* while a test request is awaited: the CancelledError leaves scan_endpoint
\* and scan_target with the list they built, `finally` closes the HTTP
\* session, and nothing is added to the Store
VulnScanInterrupted ==
    /\ xpc = "probe"
    /\ xpc' = "interrupted"
    /\ UNCHANGED <<xss_endpoints, xss_selected, xss_at, findings,
                   xss_scanned, xss_raised, xss_reflected, xss_saved>>
    /\ UNCHANGED <<scanVars, probeVars, svcVars, cleanVars>>

\* the Endpoint rows of the target in the Store
InitXss ==
    /\ subdomains = << >>
    /\ endpoints = EmptyBag
    /\ js_files = EmptyBag
    /\ vulnerabilities = 0
    /\ CrawlIdle
    /\ DiscoveryIdle
    /\ CoordinatorIdle
    /\ cancel = "none"
    /\ katana_exists = TRUE
    /\ xss_endpoints \in
          SeqsUpTo(ParameterDicts \cup {NoParameters}, MaxEndpoints)
    /\ xpc = "idle"
    /\ xss_selected = << >>
    /\ xss_at = NoRequest
    /\ findings = << >>
    /\ xss_scanned = {}
    /\ xss_raised = {}
    /\ xss_reflected = {}
    /\ xss_saved = << >>
    /\ ProbeIdle
    /\ ServiceIdle
    /\ target_arg = << >>
    /\ self_target = << >>

NextXss ==
    \/ VulnScanStart
    \/ ScanEndpoint
    \/ TestPayload
    \/ SaveFindings
    \/ VulnScanInterrupted

SpecXss == InitXss /\ [][NextXss]_vars

\* C29: a request that raises while one endpoint is tested ends neither the
\* test of that endpoint nor the scan: when scan_target is over, every
\* selected endpoint has been gone through (whatever requests raised), only
\* the commit can fail the phase, and the rows committed are exactly the
\* findings of the requests whose response held the payload.
C29_ProbeExceptionIsolated ==
    /\ xpc \in {"save", "done", "failed"} =>
          xss_scanned = {xss_selected[j] : j \in 1..Len(xss_selected)}
    /\ xpc = "done" =>
          /\ {<<f.endpoint_id, f.parameter, f.payload>> :
                 f \in {xss_saved[j] : j \in 1..Len(xss_saved)}}
                = xss_reflected
          /\ Len(xss_saved) = Cardinality(xss_reflected)

\* a request to the first endpoint raised, and the finding of a later
\* endpoint is committed
C29_Witness ==
    /\ xpc = "done"
    /\ Len(xss_selected) >= 2
    /\ xss_selected[1] \in xss_raised
    /\ \E j \in 1..Len(xss_saved) :
          /\ xss_saved[j].endpoint_id = xss_selected[2]
          /\ xss_selected[2] \notin xss_raised

----------------------------------------------------------------------------
(* CrawlingService.start_crawling_service *)

\* _get_pending_crawls: the live rows that were never crawled.  A row
\* crawled before is selected again 24 hours later, which is longer than
\* the iterations followed here take.  The coroutine has no await, so the
\* wait_for around it cannot expire.
PendingCrawls(rows) ==
    {i \in 1..Len(rows) : rows[i].is_alive /\ ~rows[i].last_checked}

\* a delay that doubles without the cap
BackoffDelay_Uncapped(n) == 60 * 2 ^ (n - 1)

\* delay = min(60 * 2 ** (consecutive_errors - 1), 300)
BackoffDelay(n) ==
    LET d == 60 * 2 ^ (n - 1)
    IN  IF d < 300 THEN d ELSE 300

\* an iteration that leaves the counter as it is
IterationOk_KeepsCount ==
    /\ UNCHANGED consecutive_errors
    /\ svc_log' = Append(svc_log, "ok")
    /\ svpc' = "poll"
    /\ UNCHANGED svc_delay

\* the try body ran to its end: the counter is reset and the service
\* sleeps 300 s before the next check
IterationOk ==
    /\ consecutive_errors' = 0
    /\ svc_log' = Append(svc_log, "ok")
    /\ svpc' = "poll"
    /\ UNCHANGED svc_delay

\* except Exception: the counter goes up, the service sleeps the backoff
\* delay, and returns when the counter has reached the limit
IterationFails ==
    LET n == consecutive_errors + 1
    IN  /\ consecutive_errors' = n
        /\ svc_delay' = BackoffDelay(n)
        /\ svc_log' = Append(svc_log, "failed")
        /\ svpc' = IF n >= ConsecutiveErrorLimit THEN "returned" ELSE "poll"

\* start_crawling_service is called
StartService ==
    /\ svpc = "idle"
    /\ svpc' = "poll"
    /\ consecutive_errors' = 0
    /\ UNCHANGED <<svc_delay, svc_log>>
    /\ UNCHANGED <<scanVars, probeVars, xssVars, cleanVars>>

\* the query takes more than the 30 s of its wait_for to return its rows:
\* the timer is due, but _get_pending_crawls has no await, so the event
\* loop is in the query and runs no timer until the query is over
ServiceQueryOverruns ==
    /\ svpc = "poll"
    /\ Len(svc_log) < MaxIterations
    /\ svpc' = "overrun"
    /\ UNCHANGED <<consecutive_errors, svc_delay, svc_log>>
    /\ UNCHANGED <<scanVars, probeVars, xssVars, cleanVars>>

\* the query returns: without rows the iteration is over; with rows one
\* task per row is created and gathered under wait_for(300).  wait_for
\* finds its coroutine done and returns the rows, however long they took
ServicePoll ==
    /\ svpc \in {"poll", "overrun"}
    /\ Len(svc_log) < MaxIterations
    /\ LET pending == PendingCrawls(subdomains)
       IN  IF pending = {}
           THEN /\ IterationOk
                /\ UNCHANGED <<spc, tasks, wpc, wres, wret, wout, weng, wscn,
                               success_count, failed_logged>>
           ELSE /\ ScheduleCrawl(pending)
                /\ svpc' = "batch"
                /\ UNCHANGED <<consecutive_errors, svc_delay, svc_log>>
    /\ UNCHANGED <<storeVars, max_concurrent_crawls, crawl_semaphore,
                   engine_calls, discVars, coordVars, cancel, katana_exists,
                   probeVars, xssVars, cleanVars>>

\* the query, or anything else in the try body, raises
ServicePollRaises ==
    /\ svpc = "poll"
    /\ Len(svc_log) < MaxIterations
    /\ IterationFails
    /\ UNCHANGED <<scanVars, probeVars, xssVars, cleanVars>>

\* gather returns: every task is done, whatever it ended with
ServiceBatchDone ==
    /\ svpc = "batch"
    /\ \A i \in tasks : wpc[i] = "done"
    /\ spc' = "returned"
    /\ IterationOk
    /\ UNCHANGED <<storeVars, max_concurrent_crawls, crawl_semaphore, tasks,
                   wpc, wres, wret, wout, weng, wscn, success_count,
                   failed_logged, engine_calls, discVars, coordVars, cancel,
                   katana_exists, probeVars, xssVars, cleanVars>>

\* the 300 s of the batch are over: the tasks that are not done are
\* cancelled, and the iteration ends as one that succeeded
ServiceBatchTimeout ==
    /\ svpc = "batch"
    /\ \E i \in tasks : wpc[i] # "done"
    /\ CancelWorkers
    /\ IterationOk
    /\ UNCHANGED <<storeVars, discVars, coordVars, cancel, katana_exists,
                   probeVars, xssVars, cleanVars>>

\* the Store the service finds: empty, or with the live row of a name
\* that a discovery left, never crawled or crawled already
InitService ==
    /\ subdomains \in
          { << >>,
            << SubdomainRow(SubA, TRUE, "PASSIVE") >>,
            << [SubdomainRow(SubA, TRUE, "PASSIVE")
                   EXCEPT !.last_checked = TRUE] >> }
    /\ endpoints = EmptyBag
    /\ js_files = EmptyBag
    /\ vulnerabilities = 0
    /\ CrawlIdle
    /\ DiscoveryIdle
    /\ CoordinatorIdle
    /\ cancel = "none"
    /\ katana_exists = TRUE
    /\ RestIdle

NextService ==
    \/ StartService
    \/ ServiceQueryOverruns
    \/ ServicePoll
    \/ ServicePollRaises
    \/ \E i \in tasks : Worker(i)
    \/ ServiceBatchDone
    \/ ServiceBatchTimeout

SpecService == InitService /\ [][NextService]_vars

\* the number of iterations at the end of the log that failed
RECURSIVE TrailingFailures(_)
TrailingFailures(log) ==
    IF log = << >> \/ log[Len(log)] # "failed" THEN 0
    ELSE 1 + TrailingFailures(SubSeq(log, 1, Len(log) - 1))

\* C30: the service has returned exactly when the last five iterations
\* failed; the counter is the number of failed iterations since the last
\* one that succeeded, so a success resets it; and no iteration follows the
\* fifth failure in a row.
C30_ReturnsAfterFiveConsecutiveFailures ==
    /\ svpc = "returned" <=>
          TrailingFailures(svc_log) >= ConsecutiveErrorLimit
    /\ consecutive_errors = TrailingFailures(svc_log)
    /\ TrailingFailures(svc_log) <= ConsecutiveErrorLimit

\* failures, then an iteration that crawled, then five failures in a row
C30_Witness ==
    /\ svpc = "returned"
    /\ Len(svc_log) > ConsecutiveErrorLimit
    /\ svc_log[1] = "failed"
    /\ \E j \in 2..Len(svc_log) : svc_log[j] = "ok"
    /\ engine_calls # EmptyBag

\* C31: within one discover call no name is validated more than once and
\* no two validations run at the same time: the names of the records of
\* the call are pairwise different, the one name under validation has no
\* record yet, and every name validated is in self.discovered, which the
\* call emptied when it started.
C31_EachNameValidatedOnce ==
    /\ \A i, j \in 1..Len(results) :
          results[i].domain = results[j].domain => i = j
    /\ \A i \in 1..Len(results) : results[i].domain \in discovered
    /\ dpc \in {"base", "passive"} =>
          /\ cur.domain \in discovered
          /\ \A i \in 1..Len(results) : results[i].domain # cur.domain

\* the scanner named a.t twice and the seed once more; the call returned
\* with one record for each of the two names
C31_Witness ==
    /\ dpc = "returned"
    /\ Len(results) = 2
    /\ results[1].domain = Base
    /\ results[2].domain = SubA

\* an exception left a phase of the run: the passive scanner raised and
\* discover re-raised, or CrawlingService(session) raised for the missing
\* binary, in the crawl phase or in the crawl of the cancellation handler
ExceptionEscaped ==
    \/ dpc = "raised"
    \/ /\ ~katana_exists
       /\ \E k \in 1..Len(phase_log) : phase_log[k] = "crawl"
    \/ /\ ~katana_exists
       /\ cancel = "delivered"
       /\ subdomains # << >>

\* C32: start_scan returns a report whenever it ends, and when an
\* exception left a phase the report has the status "error" and carries
\* the error text.
C32_ExceptionGivesErrorReport ==
    cpc = "done" =>
       /\ report # NoReport
       /\ ExceptionEscaped =>
             /\ report.status = "error"
             /\ report.error # ""

\* C33: when the vulnerability phase is interrupted by its timeout or by a
\* cancellation, every finding the scanner had produced by then is a
\* Vulnerability row of the Store.
C33_PartialFindingsDurable ==
    xpc = "interrupted" =>
       \A j \in 1..Len(findings) :
          \E k \in 1..Len(xss_saved) : xss_saved[k] = findings[j]

\* the names with a record in self.results
Validated == {results[i].domain : i \in 1..Len(results)}

\* C34: when the validation of one candidate never returns while other
\* candidates of the passive scan wait in the batch, each of those is
\* validated all the same.
C34_HungCandidateDoesNotStall ==
    \A d \in {SubA, <<"A", "t">>} :
       (/\ dpc = "hung"
        /\ cur.domain # d
        /\ d \notin discovered
        /\ \E k \in 1..Len(dq) : dq[k] = d) ~> (d \in Validated)

C37_BackoffDoublesUpToCap ==
    (svc_log # << >> /\ svc_log[Len(svc_log)] = "failed") =>
       LET k == consecutive_errors
       IN  /\ k >= 1
           /\ svc_delay = <<60, 120, 240, 300, 300>>[k]
           /\ svc_delay >= 60
           /\ svc_delay <= 300
           /\ k > 1 => svc_delay >= <<60, 120, 240, 300, 300>>[k - 1]

\* the fourth failure in a row: the doubled delay would be 480
C37_Witness ==
    /\ consecutive_errors = 4
    /\ svc_log[Len(svc_log)] = "failed"
    /\ svc_delay = 300
    /\ svpc = "poll"

\* C38: when discover returns, every record of the list it returns has its
\* row in the Store: no returned record is one whose save failed.
C38_ReturnedRecordsHaveRows ==
    dpc = "returned" =>
       \A k \in 1..Len(results) :
          /\ save_log[k] # "failed"
          /\ \E i \in 1..Len(subdomains) :
                subdomains[i].domain = results[k].domain

----------------------------------------------------------------------------
(* core/coordinator.py, discovery/discovery.py: the target of a scan is
   cleaned by the coordinator, and what the coordinator kept is cleaned
   again by the discoverer it is handed to *)

\* what the user may pass as the target: any string of at most MaxTyped
\* tokens
Typed == SeqsUpTo({"https://", "http://", "HTTP://", "www", "t", "/"}, MaxTyped)

\* ScanCoordinator.__init__: self.target = clean_target_url(target)
CoordinatorInit ==
    /\ self_target = << >>
    /\ self_target' = << clean_target_url(target_arg) >>
    /\ UNCHANGED <<target_arg, scanVars, probeVars, xssVars, svcVars>>

\* SubdomainDiscovery(target=self.target, ...).__init__:
\* self.target = clean_target_url_func(target)
SubdomainDiscoveryInit ==
    /\ Len(self_target) = 1
    /\ self_target' = Append(self_target, clean_target_url(self_target[1]))
    /\ UNCHANGED <<target_arg, scanVars, probeVars, xssVars, svcVars>>

InitClean ==
    /\ subdomains = << >>
    /\ endpoints = EmptyBag
    /\ js_files = EmptyBag
    /\ vulnerabilities = 0
    /\ CrawlIdle
    /\ DiscoveryIdle
    /\ CoordinatorIdle
    /\ cancel = "none"
    /\ katana_exists = TRUE
    /\ ProbeIdle
    /\ XssIdle
    /\ ServiceIdle
    /\ target_arg \in Typed
    /\ self_target = << >>

NextClean ==
    \/ CoordinatorInit
    \/ SubdomainDiscoveryInit

SpecClean == InitClean /\ [][NextClean]_vars

\* C39: clean_target_url is idempotent: cleaning what it returned changes
\* nothing, so the discoverer works on the target the coordinator kept.
C39_CleanIsIdempotent ==
    Len(self_target) = 2 => self_target[2] = self_target[1]

\* the step that ends the wait for a query that took more than 30 s: the
\* counter is as before and the service polls again after its sleep
C40_AfterOverrun ==
    (svpc = "overrun" /\ svpc' # "overrun") =>
       /\ consecutive_errors' = consecutive_errors
       /\ svpc' = "poll"

\* C40: an iteration of start_crawling_service whose pending-crawl query
\* times out leaves the consecutive-failure counter unchanged (it neither
\* counts as a failure nor resets the count), and the service polls again.
C40_QueryTimeoutKeepsCounter == [][C40_AfterOverrun]_vars

====
